---- MODULE Spec2Model ----
(***************************************************************************)
(* Model of src/app.js: a to-do list kept in memory (tasks), persisted to  *)
(* localStorage under one key, and projected to a rendered list plus a     *)
(* count summary by renderTasks.                                           *)
(*                                                                         *)
(* Strings the program computes on (titles, tags, ids) are sequences of    *)
(* one-character strings, so that trim, split and toLowerCase are          *)
(* computed.  Summary texts are plain TLA+ strings.                        *)
(***************************************************************************)
EXTENDS Integers, Sequences, FiniteSets, TLC

VARIABLES
    pc,               \* "loading": script evaluated, init() not yet run; "ready" after init()
    storage,          \* the value kept under STORAGE_KEY in localStorage
    tasks,            \* let tasks (app.js:15)
    sortMode,         \* let sortMode (app.js:30)
    activeTagFilter,  \* let activeTagFilter (app.js:31): None or Some(lowercased tag)
    activeTagLabel,   \* let activeTagLabel (app.js:32)
    view,             \* what renderTasks last put on the page
    handler,          \* the function that ran last: "init", "addTask", ...
    effects,          \* the storage writes and renders of that run, in order
    raised,           \* TRUE once an exception has escaped a handler
    added,            \* tasks added so far
    unsaved,          \* writes that failed since the last one that did not
    hasUUID           \* whether crypto.randomUUID exists in this browser context

vars == <<pc, storage, tasks, sortMode, activeTagFilter, activeTagLabel,
          view, handler, effects, raised, added, unsaved, hasUUID>>

----------------------------------------------------------------------------
(* Bounds of the model *)

MaxAdded == 1     \* tasks added in one run
MaxUnsaved == 1   \* writes that fail in a row

----------------------------------------------------------------------------
(* Strings *)

Space == " "
Comma == ","

\* String.prototype.toLowerCase on one character of the model's alphabet
LowerChar(c) == IF c = "A" THEN "a" ELSE IF c = "B" THEN "b" ELSE c

ToLowerCase(s) == [i \in 1..Len(s) |-> LowerChar(s[i])]

RECURSIVE TrimStart(_)
TrimStart(s) ==
    IF s # <<>> /\ Head(s) = Space THEN TrimStart(Tail(s)) ELSE s

RECURSIVE TrimEnd(_)
TrimEnd(s) ==
    IF s # <<>> /\ s[Len(s)] = Space THEN TrimEnd(SubSeq(s, 1, Len(s) - 1)) ELSE s

\* a trim that does nothing
TrimNothing(s) == s

\* String.prototype.trim
Trim(s) == TrimEnd(TrimStart(s))

\* String.prototype.split(","): the pieces between commas, empty pieces kept
RECURSIVE SplitFrom(_, _, _)
SplitFrom(s, i, cur) ==
    IF i > Len(s) THEN <<cur>>
    ELSE IF s[i] = Comma THEN <<cur>> \o SplitFrom(s, i + 1, <<>>)
    ELSE SplitFrom(s, i + 1, Append(cur, s[i]))

SplitComma(s) == SplitFrom(s, 1, <<>>)

\* Boolean(s) of a string: the empty string is falsy
NonEmptyString(s) == s # <<>>

\* Strings in a sequence: map(trim).filter(Boolean)
TrimAndDropEmpty(pieces) ==
    SelectSeq([i \in 1..Len(pieces) |-> Trim(pieces[i])], NonEmptyString)

\* decimal digits of a non-negative number, as String(n) produces them
RECURSIVE Digits(_)
Digits(n) == IF n < 10 THEN <<ToString(n)>> ELSE Digits(n \div 10) \o <<ToString(n % 10)>>

\* String.prototype.localeCompare on lowercased strings of the alphabet:
\* space and punctuation collate before letters, letters alphabetically
CharRank(c) ==
    IF c = Space THEN 0 ELSE IF c = Comma THEN 1
    ELSE IF c = "a" \/ c = "A" THEN 2 ELSE IF c = "b" \/ c = "B" THEN 3 ELSE 4

RECURSIVE LocaleCompare(_, _)
LocaleCompare(a, b) ==
    IF a = <<>> /\ b = <<>> THEN 0
    ELSE IF a = <<>> THEN -1
    ELSE IF b = <<>> THEN 1
    ELSE IF CharRank(Head(a)) < CharRank(Head(b)) THEN -1
    ELSE IF CharRank(Head(a)) > CharRank(Head(b)) THEN 1
    ELSE LocaleCompare(Tail(a), Tail(b))

----------------------------------------------------------------------------
(* Optional values: null is None, a value v is Some(v) *)

None == <<>>
Some(v) == <<v>>

\* the number NaN; every other createdAt of the model is a positive integer
NaN == -1

----------------------------------------------------------------------------
(* JSON values as JSON.parse returns them.  A value is a record            *)
(* [t, b, n, s, a]: its type t and, by type, a boolean b, a number n, a     *)
(* string s or an array a of values.  "undef" is a property that is not    *)
(* there.  Numbers of stored documents are non-negative integers.          *)

JV(t, b, n, s, a) == [t |-> t, b |-> b, n |-> n, s |-> s, a |-> a]
JUndef == JV("undef", FALSE, 0, <<>>, <<>>)
JNull == JV("null", FALSE, 0, <<>>, <<>>)
JBool(b) == JV("bool", b, 0, <<>>, <<>>)
JNum(n) == JV("num", FALSE, n, <<>>, <<>>)
JStr(s) == JV("str", FALSE, 0, s, <<>>)
JArr(a) == JV("arr", FALSE, 0, <<>>, a)

\* x ?? y takes y exactly when x is null or undefined
IsNullish(j) == j.t \in {"undef", "null"}

IsArray(j) == j.t = "arr"

\* Array.prototype.join(",")
RECURSIVE JoinComma(_)
JoinComma(strs) ==
    IF strs = <<>> THEN <<>>
    ELSE IF Len(strs) = 1 THEN strs[1]
    ELSE strs[1] \o <<Comma>> \o JoinComma(Tail(strs))

\* String(x)
RECURSIVE StringOf(_)
StringOf(j) ==
    CASE j.t = "str" -> j.s
      [] j.t = "num" -> Digits(j.n)
      [] j.t = "bool" -> IF j.b THEN <<"t", "r", "u", "e">> ELSE <<"f", "a", "l", "s", "e">>
      [] j.t = "null" -> <<"n", "u", "l", "l">>
      [] j.t = "undef" -> <<"u", "n", "d", "e", "f", "i", "n", "e", "d">>
      [] j.t = "arr" ->
            JoinComma([i \in 1..Len(j.a) |->
                          IF IsNullish(j.a[i]) THEN <<>> ELSE StringOf(j.a[i])])

\* Boolean(x)
BooleanOf(j) ==
    CASE j.t = "str" -> j.s # <<>>
      [] j.t = "num" -> j.n # 0
      [] j.t = "bool" -> j.b
      [] j.t = "arr" -> TRUE
      [] OTHER -> FALSE

DigitChars == {"0", "1", "2", "3", "4", "5", "6", "7", "8", "9"}
DigitVal(c) == CHOOSE d \in 0..9 : ToString(d) = c

RECURSIVE DecimalValue(_)
DecimalValue(s) ==
    IF s = <<>> THEN 0 ELSE 10 * DecimalValue(SubSeq(s, 1, Len(s) - 1)) + DigitVal(s[Len(s)])

\* Number(s) of a string: blank is 0, digits are their value, anything else NaN
StringToNumber(s) ==
    LET t == Trim(s) IN
    IF t = <<>> THEN 0
    ELSE IF \A i \in 1..Len(t) : t[i] \in DigitChars THEN DecimalValue(t)
    ELSE NaN

\* Number(x)
NumberOf(j) ==
    CASE j.t = "num" -> j.n
      [] j.t = "bool" -> IF j.b THEN 1 ELSE 0
      [] j.t = "null" -> 0
      [] j.t = "undef" -> NaN
      [] j.t = "str" -> StringToNumber(j.s)
      [] j.t = "arr" -> StringToNumber(StringOf(j))

----------------------------------------------------------------------------
(* localStorage under STORAGE_KEY.  kind is "absent" (getItem returns      *)
(* null), "empty" (the empty string), "corrupt" (text JSON.parse rejects), *)
(* "nonarray" (JSON that is no array) or "array"; items are the array's    *)
(* elements: nul marks a null element, and an element's missing            *)
(* properties are JUndef.                                                  *)

Stored(kind, items) == [kind |-> kind, items |-> items]

Item(id, title, completed, createdAt, tags) ==
    [nul |-> FALSE, id |-> id, title |-> title, completed |-> completed,
     createdAt |-> createdAt, tags |-> tags]

NullItem == [nul |-> TRUE, id |-> JUndef, title |-> JUndef, completed |-> JUndef,
             createdAt |-> JUndef, tags |-> JUndef]

\* @typedef Task
Task(id, title, completed, createdAt, tags) ==
    [id |-> id, title |-> title, completed |-> completed,
     createdAt |-> createdAt, tags |-> tags]

\* JSON.stringify of one task, as JSON.parse reads it back: NaN is written as null
StringifyTask(t) ==
    Item(JStr(t.id), JStr(t.title), JBool(t.completed),
         IF t.createdAt = NaN THEN JNull ELSE JNum(t.createdAt),
         JArr([i \in 1..Len(t.tags) |-> JStr(t.tags[i])]))

\* JSON.stringify(tasks)
Stringify(ts) == Stored("array", [i \in 1..Len(ts) |-> StringifyTask(ts[i])])

----------------------------------------------------------------------------
(* Identifiers.  crypto.randomUUID() and Math.random() draw values that    *)
(* repeat no value in existence; the model draws the first identifier of   *)
(* the family that no task in memory or in storage carries.                *)

IdsIn(ts) == {ts[i].id : i \in 1..Len(ts)}

StoredIds(st) == {st.items[i].id.s : i \in {j \in 1..Len(st.items) : st.items[j].id.t = "str"}}

UUID(k) == <<"u">> \o Digits(k)

\* crypto.randomUUID(): the k-th identifier, counting from index from, not in used
RECURSIVE NthUnusedUUID(_, _, _)
NthUnusedUUID(used, k, from) ==
    IF UUID(from) \in used THEN NthUnusedUUID(used, k, from + 1)
    ELSE IF k = 1 THEN UUID(from)
    ELSE NthUnusedUUID(used, k - 1, from + 1)

\* `${Date.now()}-${Math.random()}`
TimeRandom(now, k) == Digits(now) \o <<"-">> \o Digits(k)

RECURSIVE UnusedTimeRandom(_, _, _)
UnusedTimeRandom(now, used, from) ==
    IF TimeRandom(now, from) \in used THEN UnusedTimeRandom(now, used, from + 1)
    ELSE TimeRandom(now, from)

----------------------------------------------------------------------------
(* loadTasks *)

\* loadTasks with the tags of a stored record taken only when they are a string
LoadedTaskTagsLost(t, now, uuidOk, used, nth) ==
    Task(IF ~IsNullish(t.id) THEN StringOf(t.id)
         ELSE IF uuidOk THEN NthUnusedUUID(used, nth, 1)
         ELSE Digits(now),
         Trim(IF IsNullish(t.title) THEN <<>> ELSE StringOf(t.title)),
         BooleanOf(t.completed),
         IF IsNullish(t.createdAt) THEN now ELSE NumberOf(t.createdAt),
         IF t.tags.t = "str"
         THEN TrimAndDropEmpty(<<t.tags.s>>)
         ELSE <<>>)

\* the record loadTasks builds from one stored element; nth counts the elements
\* up to this one whose id is missing
LoadedTask(t, now, uuidOk, used, nth) ==
    Task(IF ~IsNullish(t.id) THEN StringOf(t.id)
         ELSE IF uuidOk THEN NthUnusedUUID(used, nth, 1)
         ELSE Digits(now),
         Trim(IF IsNullish(t.title) THEN <<>> ELSE StringOf(t.title)),
         BooleanOf(t.completed),
         IF IsNullish(t.createdAt) THEN now ELSE NumberOf(t.createdAt),
         IF IsArray(t.tags)
         THEN TrimAndDropEmpty([i \in 1..Len(t.tags.a) |-> StringOf(t.tags.a[i])])
         ELSE <<>>)

MissingIdsUpTo(items, i) == Cardinality({j \in 1..i : IsNullish(items[j].id)})

\* loadTasks without its try / catch
LoadTasksUncaught(st, current, readThrows, nows, uuidOk) ==
    IF readThrows THEN [tasks |-> current, threw |-> TRUE]
    ELSE IF st.kind \in {"absent", "empty"} THEN [tasks |-> current, threw |-> FALSE]
    ELSE IF st.kind = "corrupt" THEN [tasks |-> current, threw |-> TRUE]
    ELSE IF st.kind = "array" THEN
        IF \E i \in 1..Len(st.items) : st.items[i].nul
        THEN [tasks |-> current, threw |-> TRUE]
        ELSE [tasks |-> [i \in 1..Len(st.items) |->
                            LoadedTask(st.items[i], nows[i], uuidOk,
                                       IdsIn(current) \cup StoredIds(st),
                                       MissingIdsUpTo(st.items, i))],
              threw |-> FALSE]
    ELSE [tasks |-> current, threw |-> FALSE]

\* loadTasks(): the value of tasks after the call and whether the call threw.
\* current is tasks before the call, readThrows whether getItem throws,
\* nows[i] the reading of Date.now() while element i is mapped.
LoadTasks(st, current, readThrows, nows, uuidOk) ==
    IF readThrows THEN [tasks |-> <<>>, threw |-> FALSE]
    ELSE IF st.kind \in {"absent", "empty"} THEN [tasks |-> current, threw |-> FALSE]
    ELSE IF st.kind = "corrupt" THEN [tasks |-> <<>>, threw |-> FALSE]
    ELSE IF st.kind = "array" THEN
        IF \E i \in 1..Len(st.items) : st.items[i].nul
        THEN [tasks |-> <<>>, threw |-> FALSE]
        ELSE [tasks |-> [i \in 1..Len(st.items) |->
                            LoadedTask(st.items[i], nows[i], uuidOk,
                                       IdsIn(current) \cup StoredIds(st),
                                       MissingIdsUpTo(st.items, i))],
              threw |-> FALSE]
    ELSE [tasks |-> current, threw |-> FALSE]

----------------------------------------------------------------------------
(* saveTasks *)

\* saveTasks without its try / catch
SaveTasksUncaught(ts, st, writeFails) ==
    [storage |-> IF writeFails THEN st ELSE Stringify(ts), threw |-> writeFails]

\* saveTasks(): the stored value after the call and whether the call threw.
\* writeFails is whether setItem throws (quota, private mode).
SaveTasks(ts, st, writeFails) ==
    [storage |-> IF writeFails THEN st ELSE Stringify(ts), threw |-> FALSE]

----------------------------------------------------------------------------
(* renderTasks *)

\* the filter of renderTasks comparing each tag as it is written
VisibleTasksCaseSensitive(ts, filter) ==
    IF filter = None THEN ts
    ELSE LET Matches(t) == \E i \in 1..Len(t.tags) : t.tags[i] = filter[1]
         IN SelectSeq(ts, Matches)

\* the filter of renderTasks: all tasks, or those with a tag whose lowercase
\* form is the active filter
VisibleTasks(ts, filter) ==
    IF filter = None THEN ts
    ELSE LET Matches(t) == \E i \in 1..Len(t.tags) : ToLowerCase(t.tags[i]) = filter[1]
         IN SelectSeq(ts, Matches)

Sign(n) == IF n < 0 THEN -1 ELSE IF n > 0 THEN 1 ELSE 0

\* a.createdAt - b.createdAt as sort reads it: a NaN result counts as +0
CreatedAtOrder(a, b) ==
    IF a.createdAt = NaN \/ b.createdAt = NaN THEN 0 ELSE Sign(a.createdAt - b.createdAt)

FirstTagLower(t) == IF t.tags # <<>> /\ t.tags[1] # <<>> THEN ToLowerCase(t.tags[1]) ELSE <<>>

\* the comparator renderTasks hands to sort: negative, zero or positive
Compare(a, b, mode) ==
    IF mode = "tag" THEN
        LET aTag == FirstTagLower(a)
            bTag == FirstTagLower(b)
        IN  IF aTag = <<>> /\ bTag = <<>> THEN CreatedAtOrder(a, b)
            ELSE IF aTag = <<>> THEN 1
            ELSE IF bTag = <<>> THEN -1
            ELSE IF LocaleCompare(aTag, bTag) # 0 THEN LocaleCompare(aTag, bTag)
            ELSE CreatedAtOrder(a, b)
    ELSE CreatedAtOrder(a, b)

\* whether the comparator is a consistent comparator on the elements of seq
\* (ECMAScript, Array.prototype.sort): equality is symmetric and transitive,
\* before and after are transitive and mirror each other
ConsistentComparator(seq, mode) ==
    LET C(i, j) == Compare(seq[i], seq[j], mode)
        N == 1..Len(seq)
    IN  /\ \A i \in N : C(i, i) = 0
        /\ \A i, j \in N : C(i, j) = 0 - C(j, i)
        /\ \A i, j, k \in N :
              /\ (C(i, j) = 0 /\ C(j, k) = 0) => C(i, k) = 0
              /\ (C(i, j) < 0 /\ C(j, k) < 0) => C(i, k) < 0
              /\ (C(i, j) > 0 /\ C(j, k) > 0) => C(i, k) > 0

\* x put into the sorted sequence before the first element that sorts after it
RECURSIVE InsertSorted(_, _, _)
InsertSorted(sorted, x, mode) ==
    IF sorted = <<>> THEN <<x>>
    ELSE IF Compare(Head(sorted), x, mode) > 0 THEN <<x>> \o sorted
    ELSE <<Head(sorted)>> \o InsertSorted(Tail(sorted), x, mode)

\* the stable sort of seq by the comparator
RECURSIVE StableSort(_, _)
StableSort(seq, mode) ==
    IF seq = <<>> THEN <<>>
    ELSE InsertSorted(StableSort(SubSeq(seq, 1, Len(seq) - 1), mode), seq[Len(seq)], mode)

SeqPermutations(seq) ==
    {[i \in 1..Len(seq) |-> seq[p[i]]] :
        p \in {q \in [1..Len(seq) -> 1..Len(seq)] : \A i, j \in 1..Len(seq) : q[i] = q[j] => i = j}}

\* [...visibleTasks].sort(comparator): the stable sort when the comparator is
\* consistent; otherwise the order is implementation-defined
SortOutcomes(seq, mode) ==
    IF ConsistentComparator(seq, mode) THEN {StableSort(seq, mode)} ELSE SeqPermutations(seq)

\* updateTaskCount counting the completed tasks
CountTextOfCompleted(ts) ==
    LET done == Len(SelectSeq(ts, LAMBDA t : t.completed))
        total == Len(ts)
    IN  IF total = 0 THEN "No tasks"
        ELSE IF done = total THEN "All done"
        ELSE ToString(done) \o " of " \o ToString(total) \o " task"
                 \o (IF total = 1 THEN "" ELSE "s") \o " left"

\* updateTaskCount: the text of the count element
CountText(ts) ==
    LET remaining == Len(SelectSeq(ts, LAMBDA t : ~t.completed))
        total == Len(ts)
    IN  IF total = 0 THEN "No tasks"
        ELSE IF remaining = 0 THEN "All done"
        ELSE ToString(remaining) \o " of " \o ToString(total) \o " task"
                 \o (IF total = 1 THEN "" ELSE "s") \o " left"

\* updateTaskCount: whether the clear-completed button is disabled
ClearDisabled(ts) == \A i \in 1..Len(ts) : ~ts[i].completed

\* what is on the page: state "list" with the items in display order, or one of
\* the two empty states ("empty-filter" names the label in its message)
Page(state, items, label, ts) ==
    [state |-> state, items |-> items, label |-> label,
     count |-> CountText(ts), clearDisabled |-> ClearDisabled(ts)]

\* the static page before the first render
BlankPage == [state |-> "blank", items |-> <<>>, label |-> <<>>,
              count |-> "", clearDisabled |-> FALSE]

\* renderTasks(): the pages it can produce
RenderTasks(ts, mode, filter, label) ==
    LET visible == VisibleTasks(ts, filter) IN
    IF Len(visible) = 0
    THEN IF filter # None /\ filter[1] # <<>> /\ label # <<>>
         THEN {Page("empty-filter", <<>>, label, ts)}
         ELSE {Page("empty", <<>>, <<>>, ts)}
    ELSE {Page("list", sorted, <<>>, ts) : sorted \in SortOutcomes(visible, mode)}

----------------------------------------------------------------------------
(* The operations on the collection *)

\* parseTags that keeps each tag once
ParseTagsOnce(input) ==
    LET all == IF input = <<>> THEN <<>> ELSE TrimAndDropEmpty(SplitComma(input))
        first == {i \in 1..Len(all) : \A j \in 1..(i - 1) : all[j] # all[i]}
    IN  [k \in 1..Cardinality(first) |->
            all[CHOOSE i \in first : Cardinality({j \in first : j < i}) = k - 1]]

\* parseTags
ParseTags(input) ==
    IF input = <<>> THEN <<>> ELSE TrimAndDropEmpty(SplitComma(input))

\* addTask: the record it builds from the trimmed title
NewTask(id, trimmed, now, tagsInput) ==
    Task(id, trimmed, FALSE, now, ParseTags(tagsInput))

\* removeTask: tasks.filter((t) => t.id !== id)
RemoveFrom(ts, id) == SelectSeq(ts, LAMBDA t : t.id # id)

\* toggleTaskCompleted: tasks.map(...)
ToggleIn(ts, id) ==
    [i \in 1..Len(ts) |->
        IF ts[i].id = id THEN [ts[i] EXCEPT !.completed = ~ts[i].completed] ELSE ts[i]]

\* clearCompletedTasks with the test of its filter the wrong way round
OnlyCompleted(ts) == SelectSeq(ts, LAMBDA t : t.completed)

\* clearCompletedTasks: tasks.filter((t) => !t.completed)
WithoutCompleted(ts) == SelectSeq(ts, LAMBDA t : ~t.completed)

\* setActiveTagFilter: the pair <<activeTagFilter, activeTagLabel>> it sets
FilterFor(tagLabel) ==
    IF tagLabel = None \/ tagLabel[1] = <<>> THEN <<None, <<>>>>
    ELSE <<Some(ToLowerCase(tagLabel[1])), tagLabel[1]>>

----------------------------------------------------------------------------
(* The handlers.  What a handler takes from outside is a parameter: the    *)
(* text typed, the readings of Date.now(), whether setItem throws.         *)

\* the part every mutating operation ends with: saveTasks(); renderTasks();
SaveAndRender(newTasks, writeFails) ==
    LET saved == SaveTasks(newTasks, storage, writeFails) IN
    /\ writeFails => unsaved < MaxUnsaved
    /\ tasks' = newTasks
    /\ storage' = saved.storage
    /\ unsaved' = IF writeFails THEN unsaved + 1 ELSE 0
    /\ IF saved.threw
       THEN /\ raised' = TRUE
            /\ effects' = <<"writeFailed">>
            /\ view' = view
       ELSE /\ raised' = raised
            /\ effects' = <<IF writeFails THEN "writeFailed" ELSE "write", "render">>
            /\ view' \in RenderTasks(newTasks, sortMode, activeTagFilter, activeTagLabel)

\* init(): loadTasks(); renderTasks();
InitApp(readThrows, nows) ==
    /\ pc = "loading"
    /\ handler' = "init"
    /\ LET loaded == LoadTasks(storage, tasks, readThrows, nows, hasUUID) IN
        /\ tasks' = loaded.tasks
        /\ IF loaded.threw
           THEN /\ raised' = TRUE
                /\ effects' = <<>>
                /\ view' = view
           ELSE /\ raised' = raised
                /\ effects' = <<"render">>
                /\ view' \in RenderTasks(loaded.tasks, sortMode, activeTagFilter, activeTagLabel)
    /\ pc' = "ready"
    /\ UNCHANGED <<storage, added, unsaved, sortMode, activeTagFilter, activeTagLabel, hasUUID>>

\* addTask(title, tagsInput), called by handleFormSubmit; nowId and now are the
\* readings of Date.now() for the id and for createdAt
AddTask(title, tagsInput, nowId, now, writeFails) ==
    /\ pc = "ready"
    /\ handler' = "addTask"
    /\ LET trimmed == Trim(title)
           used == IdsIn(tasks) \cup StoredIds(storage)
           id == IF hasUUID THEN NthUnusedUUID(used, 1, 1)
                 ELSE UnusedTimeRandom(nowId, used, 1)
       IN  IF trimmed = <<>>
           THEN /\ effects' = <<>>
                /\ UNCHANGED <<tasks, storage, unsaved, view, raised, added>>
           ELSE /\ added < MaxAdded
                /\ added' = added + 1
                /\ SaveAndRender(Append(tasks, NewTask(id, trimmed, now, tagsInput)), writeFails)
    /\ UNCHANGED <<pc, sortMode, activeTagFilter, activeTagLabel, hasUUID>>

\* removeTask(id), wired to the remove button of a displayed task
RemoveTask(id, writeFails) ==
    /\ pc = "ready"
    /\ handler' = "removeTask"
    /\ SaveAndRender(RemoveFrom(tasks, id), writeFails)
    /\ UNCHANGED <<pc, added, sortMode, activeTagFilter, activeTagLabel, hasUUID>>

\* toggleTaskCompleted(id), wired to the checkbox of a displayed task
ToggleTaskCompleted(id, writeFails) ==
    /\ pc = "ready"
    /\ handler' = "toggleTaskCompleted"
    /\ SaveAndRender(ToggleIn(tasks, id), writeFails)
    /\ UNCHANGED <<pc, added, sortMode, activeTagFilter, activeTagLabel, hasUUID>>

\* clearCompletedTasks(), wired to the clear-completed button
ClearCompletedTasks(writeFails) ==
    /\ pc = "ready"
    /\ handler' = "clearCompletedTasks"
    /\ SaveAndRender(WithoutCompleted(tasks), writeFails)
    /\ UNCHANGED <<pc, added, sortMode, activeTagFilter, activeTagLabel, hasUUID>>

\* setActiveTagFilter(tagLabel)
SetActiveTagFilter(tagLabel) ==
    /\ pc = "ready"
    /\ handler' = "setActiveTagFilter"
    /\ activeTagFilter' = FilterFor(tagLabel)[1]
    /\ activeTagLabel' = FilterFor(tagLabel)[2]
    /\ view' \in RenderTasks(tasks, sortMode, activeTagFilter', activeTagLabel')
    /\ effects' = <<"render">>
    /\ UNCHANGED <<pc, storage, added, unsaved, tasks, sortMode, raised, hasUUID>>

\* the click listener of a tag pill: the same tag again clears the filter
TagClick(tag) ==
    IF activeTagFilter # None /\ activeTagFilter[1] = ToLowerCase(tag)
    THEN SetActiveTagFilter(None)
    ELSE SetActiveTagFilter(Some(tag))

\* the click listener of the clear-tag-filter button
ClearTagFilterClick == SetActiveTagFilter(None)

\* the change listener of the sort select
SortChange(value) ==
    /\ pc = "ready"
    /\ handler' = "sortChange"
    /\ sortMode' = IF value = "tag" THEN "tag" ELSE "createdAt"
    /\ view' \in RenderTasks(tasks, sortMode', activeTagFilter, activeTagLabel)
    /\ effects' = <<"render">>
    /\ UNCHANGED <<pc, storage, added, unsaved, tasks, activeTagFilter, activeTagLabel, raised, hasUUID>>

\* the page is opened again: the script starts over, storage stays
Reload ==
    /\ pc = "ready"
    /\ pc' = "loading"
    /\ handler' = "none"
    /\ tasks' = <<>>
    /\ sortMode' = "createdAt"
    /\ activeTagFilter' = None
    /\ activeTagLabel' = <<>>
    /\ view' = BlankPage
    /\ effects' = <<>>
    /\ raised' = FALSE
    /\ UNCHANGED <<storage, added, unsaved, hasUUID>>

----------------------------------------------------------------------------
(* Inputs *)

Times == {1, 2}

\* what the user types into the title field
TitleInputs == {<<>>, <<" ">>, <<"a">>, <<" ", "a", " ">>}

\* what the user types into the tags field
TagInputs == {<<>>, <<"a", ",", " ", ",", "a">>, <<" ", "B", " ", ",", "A">>, <<",", " ">>}

\* values of the sort select
SortValues == {"createdAt", "tag", "other"}

\* stored values that give loadTasks nothing to read
NoTasksStored ==
    { Stored("absent", <<>>),
      Stored("empty", <<>>),
      Stored("corrupt", <<>>),
      Stored("nonarray", <<>>),
      Stored("array", <<NullItem>>) }

\* two records carrying the same id
SameIdStored ==
    Stored("array", << Item(JStr(<<"x">>), JStr(<<"a">>), JBool(TRUE), JNum(2), JArr(<<JStr(<<"a">>)>>)),
                       Item(JStr(<<"x">>), JStr(<<" ", "a">>), JUndef, JNum(1), JUndef) >>)

\* records with no id and no createdAt, and fields of other types
MissingFieldsStored ==
    Stored("array", << Item(JUndef, JStr(<<"a">>), JBool(FALSE), JUndef, JArr(<<JStr(<<" ">>), JStr(<<"B">>)>>)),
                       Item(JNull, JUndef, JNum(1), JNull, JStr(<<"a">>)) >>)

\* three well-formed records, one of them not completed
ThreeStored ==
    Stored("array", << Item(JStr(<<"x">>), JStr(<<"a">>), JBool(TRUE), JNum(2), JArr(<<JStr(<<"b">>)>>)),
                       Item(JStr(<<"y">>), JStr(<<"a">>), JBool(FALSE), JNum(2), JArr(<<>>)),
                       Item(JStr(<<"z">>), JStr(<<"a">>), JBool(TRUE), JNum(1), JArr(<<JStr(<<"a">>)>>)) >>)

\* a createdAt that is no number, between two that are
NotANumberStored ==
    Stored("array", << Item(JStr(<<"x">>), JStr(<<"a">>), JBool(FALSE), JNum(2), JArr(<<>>)),
                       Item(JStr(<<"y">>), JStr(<<"a">>), JBool(TRUE), JStr(<<"a">>), JArr(<<>>)),
                       Item(JStr(<<"z">>), JStr(<<"a">>), JBool(TRUE), JNum(1), JArr(<<>>)) >>)

\* values found under the storage key when the page is first opened
StoredSamples == NoTasksStored \cup {SameIdStored, MissingFieldsStored, ThreeStored}

\* the ids and tags the page offers for clicking
ShownIds == {view.items[i].id : i \in 1..Len(view.items)}

ShownTags ==
    UNION {{view.items[i].tags[j] : j \in 1..Len(view.items[i].tags)} : i \in 1..Len(view.items)}

----------------------------------------------------------------------------
(* Specifications *)

Start(stored, uuids) ==
    /\ pc = "loading"
    /\ storage \in stored
    /\ unsaved = 0
    /\ added = 0
    /\ tasks = <<>>
    /\ sortMode = "createdAt"
    /\ activeTagFilter = None
    /\ activeTagLabel = <<>>
    /\ view = BlankPage
    /\ handler = "none"
    /\ effects = <<>>
    /\ raised = FALSE
    /\ hasUUID \in uuids

Init == Start(StoredSamples, BOOLEAN)

\* what an earlier visit that began with nothing stored has left under the key
EarlierVisit ==
    Stringify(<< Task(UUID(1), <<"a">>, TRUE, 2, <<<<"B">>, <<"a">>>>),
                 Task(UUID(2), <<"a">>, FALSE, 1, <<>>) >>)

\* a visit with nothing under the storage key, or with what such visits left
InitFresh == Start({Stored("absent", <<>>), EarlierVisit}, BOOLEAN)

Open == \E readThrows \in BOOLEAN, nows \in [1..Len(storage.items) -> Times] : InitApp(readThrows, nows)

Submit ==
    \E title \in TitleInputs, tagsInput \in TagInputs, now \in Times :
        AddTask(title, tagsInput, now, now, FALSE)

RemoveClick == \E id \in ShownIds : RemoveTask(id, FALSE)

ToggleChange == \E id \in ShownIds : ToggleTaskCompleted(id, FALSE)

ClearCompletedClick == ClearCompletedTasks(FALSE)

\* the handlers that change the collection, with writes that succeed
Next ==
    \/ Open
    \/ Submit
    \/ RemoveClick
    \/ ToggleChange
    \/ ClearCompletedClick
    \/ Reload

Spec == Init /\ [][Next]_vars

SpecFresh == InitFresh /\ [][Next]_vars

TagPillClick == \E tag \in ShownTags : TagClick(tag)

SortSelect == \E value \in SortValues : SortChange(value)

\* all handlers, with writes that succeed
NextView ==
    \/ Next
    \/ TagPillClick
    \/ ClearTagFilterClick
    \/ SortSelect

InitView == Start({Stored("absent", <<>>), SameIdStored, MissingFieldsStored, ThreeStored}, {TRUE})

SpecView == InitView /\ [][NextView]_vars

InitSort == Start({NotANumberStored}, {TRUE})

\* the handlers that take no typing
NextSort ==
    \/ Open
    \/ RemoveClick
    \/ ToggleChange
    \/ ClearCompletedClick
    \/ SortSelect
    \/ Reload

\* a visit that finds a createdAt that is no number under the storage key
SpecSort == InitSort /\ [][NextSort]_vars

SubmitQuota ==
    \E title \in TitleInputs, tagsInput \in TagInputs, now \in Times, writeFails \in BOOLEAN :
        AddTask(title, tagsInput, now, now, writeFails)

RemoveClickQuota == \E id \in ShownIds, writeFails \in BOOLEAN : RemoveTask(id, writeFails)

ToggleChangeQuota == \E id \in ShownIds, writeFails \in BOOLEAN : ToggleTaskCompleted(id, writeFails)

ClearCompletedClickQuota == \E writeFails \in BOOLEAN : ClearCompletedTasks(writeFails)

\* the handlers that change the collection, with writes that may fail
NextQuota ==
    \/ Open
    \/ SubmitQuota
    \/ RemoveClickQuota
    \/ ToggleChangeQuota
    \/ ClearCompletedClickQuota
    \/ Reload

InitQuota == Start({Stored("absent", <<>>), ThreeStored}, {TRUE})

SpecQuota == InitQuota /\ [][NextQuota]_vars

----------------------------------------------------------------------------
(* Properties *)

\* the state right after init() has returned
AfterInit == pc = "ready" /\ handler = "init"

\* the state right after a handler has written the collection and rendered
AfterWrite == pc = "ready" /\ effects = <<"write", "render">>

SameTask(a, b) ==
    /\ a.id = b.id
    /\ a.title = b.title
    /\ a.completed = b.completed
    /\ a.createdAt = b.createdAt
    /\ a.tags = b.tags

\* C1: every collection reached from an empty store by add / remove / toggle /
\* clearCompleted, written with saveTasks and read back with loadTasks, comes
\* back with the same length and order, and every task with the same id, title,
\* completed flag, createdAt and tags, whatever Date.now() and crypto offer
\* while it is read.
C1_RoundTrip ==
    pc = "ready" =>
        \A uuidOk \in BOOLEAN, nows \in [1..Len(tasks) -> Times] :
            LET written == SaveTasks(tasks, storage, FALSE).storage
                back == LoadTasks(written, <<>>, FALSE, nows, uuidOk).tasks
            IN  /\ Len(back) = Len(tasks)
                /\ \A i \in 1..Len(tasks) : SameTask(back[i], tasks[i])

\* a collection of three tasks, one completed, one with two tags, has just
\* been written
C1_Witness ==
    /\ AfterWrite
    /\ handler = "addTask"
    /\ Len(tasks) = 3
    /\ \E i \in 1..Len(tasks) : tasks[i].completed /\ Len(tasks[i].tags) = 2
    /\ storage = Stringify(tasks)

\* C2: no two tasks of the in-memory collection have the same id.
C2_UniqueIds ==
    \A i, j \in 1..Len(tasks) : tasks[i].id = tasks[j].id => i = j

\* C3: loadTasks never raises, and after it the collection is empty when the
\* stored value is absent, is no valid JSON or decodes to something that is no
\* array.
C3_LoadNeverRaises ==
    /\ AfterInit => ~raised
    /\ (AfterInit /\ storage.kind \in {"absent", "empty", "corrupt", "nonarray"}) => tasks = <<>>

\* init() has run on a stored value that is no JSON
C3_Witness == AfterInit /\ storage.kind = "corrupt" /\ tasks = <<>> /\ ~raised

\* the least and the greatest of a non-empty set of numbers, and its k-th smallest
Least(S) == CHOOSE x \in S : \A y \in S : x <= y
Greatest(S) == CHOOSE x \in S : \A y \in S : y <= x
KthSmallest(S, k) == CHOOSE x \in S : Cardinality({y \in S : y < x}) = k - 1

\* s from its first to its last character that is no space
Stripped(s) ==
    LET solid == {i \in 1..Len(s) : s[i] # Space} IN
    IF solid = {} THEN <<>> ELSE SubSeq(s, Least(solid), Greatest(solid))

\* the stripped, non-empty stretches of s between its commas, left to right
PiecesBetweenCommas(s) ==
    LET cuts == {0, Len(s) + 1} \cup {i \in 1..Len(s) : s[i] = Comma}
        Stretch(c) == Stripped(SubSeq(s, c + 1, Least({d \in cuts : d > c}) - 1))
        kept == {c \in cuts : c <= Len(s) /\ Stretch(c) # <<>>}
    IN  [k \in 1..Cardinality(kept) |-> Stretch(KthSmallest(kept, k))]

\* the tasks of ts that are not completed, in the order they have in ts
IncompleteOf(ts) ==
    LET kept == {i \in 1..Len(ts) : ~ts[i].completed}
    IN  [k \in 1..Cardinality(kept) |-> ts[KthSmallest(kept, k)]]

\* seq and ts hold the same tasks the same number of times
SameTasksInSomeOrder(seq, ts) ==
    /\ Len(seq) = Len(ts)
    /\ \A t \in {ts[i] : i \in 1..Len(ts)} \cup {seq[i] : i \in 1..Len(seq)} :
          Cardinality({i \in 1..Len(ts) : ts[i] = t}) = Cardinality({i \in 1..Len(seq) : seq[i] = t})

\* the page shows the collection ts with no filter set
ShowsAll(page, ts) ==
    /\ SameTasksInSomeOrder(page.items, ts)
    /\ page.state = (IF ts = <<>> THEN "empty" ELSE "list")

\* C4: when the storage write of a mutating operation fails, no error reaches
\* the caller, the collection in memory is the operation's result on the
\* collection in memory and is what is rendered, and the stored value stays as
\* it was; a write that succeeds stores the whole collection in memory.
C4_WriteFailureSwallowed ==
    [][ (pc = "ready" /\ effects' # <<>> /\ effects'[1] \in {"write", "writeFailed"}) =>
          /\ ~raised'
          /\ \/ Len(tasks') = Len(tasks) + 1 /\ SubSeq(tasks', 1, Len(tasks)) = tasks
             \/ \E id \in ShownIds : tasks' = SelectSeq(tasks, LAMBDA t : t.id # id)
             \/ \E id \in ShownIds :
                   /\ Len(tasks') = Len(tasks)
                   /\ \A i \in 1..Len(tasks) :
                         tasks'[i] = IF tasks[i].id = id
                                     THEN [tasks[i] EXCEPT !.completed = ~tasks[i].completed]
                                     ELSE tasks[i]
             \/ tasks' = IncompleteOf(tasks)
          /\ effects' = <<effects'[1], "render">>
          /\ ShowsAll(view', tasks') /\ view'.count = CountText(tasks')
          /\ effects'[1] = "writeFailed" => storage' = storage
          /\ effects'[1] = "write" => storage' = Stringify(tasks')
      ]_vars

\* a write has failed: memory holds tasks the stored value does not, and the
\* page shows memory
C4_Witness ==
    /\ pc = "ready"
    /\ effects = <<"writeFailed", "render">>
    /\ unsaved = 1
    /\ tasks # <<>>
    /\ storage # Stringify(tasks)
    /\ ShowsAll(view, tasks)
    /\ ~raised

\* C5: addTask with a title that is empty or only spaces, whatever the tags
\* text, leaves the collection as it is and writes nothing to storage.
C5_BlankTitleIgnored ==
    [][ \A title \in TitleInputs, tagsInput \in TagInputs, now \in Times :
          (AddTask(title, tagsInput, now, now, FALSE) /\ \A i \in 1..Len(title) : title[i] = Space) =>
              /\ tasks' = tasks
              /\ storage' = storage
              /\ effects' = <<>>
      ]_vars

\* addTask has returned without a write or a render, on a collection that holds tasks
C5_Witness ==
    /\ pc = "ready"
    /\ handler = "addTask"
    /\ effects = <<>>
    /\ tasks # <<>>

\* C6: addTask with a title that is not blank appends one task and leaves the
\* tasks before it as they were; the new task has the title without its outer
\* spaces, is not completed, and its tags are the pieces of the tags text
\* between commas, each without outer spaces, empty pieces left out, in input
\* order, duplicates kept.
C6_AddAppends ==
    [][ \A title \in TitleInputs, tagsInput \in TagInputs, now \in Times :
          (AddTask(title, tagsInput, now, now, FALSE) /\ \E i \in 1..Len(title) : title[i] # Space) =>
              /\ Len(tasks') = Len(tasks) + 1
              /\ SubSeq(tasks', 1, Len(tasks)) = tasks
              /\ tasks'[Len(tasks')].title = Stripped(title)
              /\ tasks'[Len(tasks')].completed = FALSE
              /\ tasks'[Len(tasks')].tags = PiecesBetweenCommas(tagsInput)
      ]_vars

\* a task whose tags text held the same tag twice has been appended to a
\* collection that held tasks
C6_Witness ==
    /\ pc = "ready"
    /\ handler = "addTask"
    /\ Len(tasks) >= 2
    /\ tasks[Len(tasks)].tags = << <<"a">>, <<"a">> >>
    /\ tasks[Len(tasks)].title = <<"a">>
    /\ ~tasks[Len(tasks)].completed

\* C7: clearCompletedTasks leaves exactly the tasks that were not completed,
\* in the order they had and unchanged, and performs one storage write and one
\* render, the write first.
C7_ClearCompleted ==
    [][ \A writeFails \in BOOLEAN :
          ClearCompletedTasks(writeFails) =>
              /\ tasks' = IncompleteOf(tasks)
              /\ Len(effects') = 2
              /\ effects'[1] \in {"write", "writeFailed"}
              /\ effects'[2] = "render"
      ]_vars

\* clearCompletedTasks has run and has left a task of a collection that held more
C7_Witness ==
    /\ pc = "ready"
    /\ handler = "clearCompletedTasks"
    /\ effects = <<"write", "render">>
    /\ Len(tasks) = 1
    /\ Len(storage.items) = 1

\* the number of tasks of ts that are not completed
Remaining(ts) == Cardinality({i \in 1..Len(ts) : ~ts[i].completed})

\* C8 as stated: clearCompleted on a collection in which every task is
\* completed leaves an empty collection and the summary "No tasks", and for
\* three tasks of which exactly one is not completed the summary is
\* "2 of 3 tasks left".
C8_AsStated ==
    [][ /\ (ClearCompletedTasks(FALSE) /\ \A i \in 1..Len(tasks) : tasks[i].completed) =>
              (tasks' = <<>> /\ view'.count = "No tasks")
        /\ (pc' = "ready" /\ Len(tasks') = 3 /\ Remaining(tasks') = 1) =>
              view'.count = "2 of 3 tasks left"
      ]_vars

\* C8: clearCompleted on a collection in which every task is completed leaves
\* an empty collection and the summary "No tasks", and for three tasks of which
\* exactly one is not completed the summary is "1 of 3 tasks left": the
\* summary counts the tasks that are left to do.
C8_CountSummary ==
    [][ /\ (ClearCompletedTasks(FALSE) /\ \A i \in 1..Len(tasks) : tasks[i].completed) =>
              (tasks' = <<>> /\ view'.count = "No tasks")
        /\ (pc' = "ready" /\ Len(tasks') = 3 /\ Remaining(tasks') = 1) =>
              view'.count = "1 of 3 tasks left"
      ]_vars

\* three tasks, one of them not completed, are on the page with their summary
C8_Witness ==
    /\ pc = "ready"
    /\ Len(tasks) = 3
    /\ Remaining(tasks) = 1
    /\ view.count = "1 of 3 tasks left"
    /\ ~view.clearDisabled

\* a and b are the same when both are lowercased
SameIgnoringCase(a, b) ==
    /\ Len(a) = Len(b)
    /\ \A i \in 1..Len(a) : a[i] = b[i] \/ {a[i], b[i]} \in {{"a", "A"}, {"b", "B"}}

\* the tasks of ts with a tag that is label when both are lowercased, in the
\* order they have in ts
TaggedLike(ts, label) ==
    LET kept == {i \in 1..Len(ts) : \E j \in 1..Len(ts[i].tags) : SameIgnoringCase(ts[i].tags[j], label)}
    IN  [k \in 1..Cardinality(kept) |-> ts[KthSmallest(kept, k)]]

\* C9: with a tag filter active the page shows exactly the tasks with a tag
\* equal to the filter label when both are lowercased; when there is none it
\* is in the "empty with filter" state, which is not the state it is in when
\* no filter is active and the collection is empty.
C9_FilterShowsMatches ==
    pc = "ready" =>
        IF activeTagFilter = None
        THEN /\ view.state # "empty-filter"
             /\ tasks = <<>> => view.state = "empty"
        ELSE /\ activeTagLabel # <<>>
             /\ SameTasksInSomeOrder(view.items, TaggedLike(tasks, activeTagLabel))
             /\ view.state = (IF TaggedLike(tasks, activeTagLabel) = <<>> THEN "empty-filter" ELSE "list")
             /\ view.state = "empty-filter" => view.label = activeTagLabel

\* the filter label is "A" and the page shows a task whose only tag is "a"
C9_Witness ==
    /\ pc = "ready"
    /\ activeTagLabel = <<"A">>
    /\ \E i \in 1..Len(view.items) : view.items[i].tags = << <<"a">> >>
    /\ Len(view.items) < Len(tasks)

\* the filter is active, the collection holds tasks and none of them matches
C9_EmptyWithFilter ==
    /\ pc = "ready"
    /\ activeTagFilter # None
    /\ tasks # <<>>
    /\ view.state = "empty-filter"

\* a comes no later than b by creation time
NotAfter(a, b) == (a.createdAt # NaN /\ b.createdAt # NaN) => a.createdAt <= b.createdAt

\* the lowercased first tag of a tagged task
FirstTag(t) == [i \in 1..Len(t.tags[1]) |-> IF t.tags[1][i] = "A" THEN "a"
                                             ELSE IF t.tags[1][i] = "B" THEN "b" ELSE t.tags[1][i]]

\* a may stand before b on the page in the given sort mode
MayPrecede(a, b, mode) ==
    IF mode = "tag"
    THEN IF a.tags = <<>> /\ b.tags = <<>> THEN NotAfter(a, b)
         ELSE IF a.tags = <<>> THEN FALSE
         ELSE IF b.tags = <<>> THEN TRUE
         ELSE \/ LocaleCompare(FirstTag(a), FirstTag(b)) < 0
              \/ LocaleCompare(FirstTag(a), FirstTag(b)) = 0 /\ NotAfter(a, b)
    ELSE NotAfter(a, b)

\* the tasks the filter lets through
Filtered == IF activeTagFilter = None THEN tasks ELSE TaggedLike(tasks, activeTagLabel)

\* C10: the page shows a permutation of the filtered tasks in the order of the
\* sort mode (by creation time: ascending createdAt; by tag: tagged tasks first,
\* by lowercased first tag, ties by ascending createdAt, untagged tasks by
\* ascending createdAt), and rendering leaves the collection as it is.
C10_DisplayOrdered ==
    [][ /\ (pc' = "ready" /\ view'.state = "list") =>
              /\ SameTasksInSomeOrder(view'.items, Filtered')
              /\ \A i, j \in 1..Len(view'.items) :
                    i < j => MayPrecede(view'.items[i], view'.items[j], sortMode')
        /\ handler' \in {"sortChange", "setActiveTagFilter"} => tasks' = tasks
      ]_vars

\* the by-tag order is on the page: a task tagged "a", one tagged "b", one with no tag
C10_Witness ==
    /\ pc = "ready"
    /\ sortMode = "tag"
    /\ Len(view.items) = 3
    /\ view.items[1].tags = << <<"a">> >>
    /\ view.items[2].tags = << <<"b">> >>
    /\ view.items[3].tags = <<>>
    /\ tasks[1].tags = << <<"b">> >>

====
